---- MODULE Spec2Model ----
(***************************************************************************)
(* Model of src/main.rs: a TUN interface is opened and configured with     *)
(* ioctl calls, then one task relays UDP datagrams to the device through a *)
(* BufWriter while the main loop relays device packets to a fixed UDP peer *)
(* through a BufReader.                                                    *)
(*                                                                         *)
(* Flag words are modelled as the set of their bit positions (bit 0 is the *)
(* value 1), so that "|" is set union.  A payload is a slice               *)
(* [id, off, len]: the bytes off .. off+len-1 of the packet numbered id on *)
(* its leg.                                                                *)
(***************************************************************************)
EXTENDS Integers, Sequences, FiniteSets, TLC

\* ------------------------------------------------------------------ bounds
MaxTunPkts == 2
MaxUdpPkts == 3
MaxBurstPkts == 10
MaxEmptyDgrams == 1

\* --------------------------------------------------------------- constants
IFF_UP == {0}
IFF_RUNNING == {6}
IFF_TUN == {0}
IFF_NO_PI == {12}
IFF_MULTI_QUEUE == {8}

TUNSETIFF == 1074025674
SIOCGIFFLAGS == 35092
SIOCSIFFLAGS == 35092
SIOCSIFADDR == 35094
SIOCSIFNETMASK == 35100

TUN_BUF_LEN == 1500
UDP_BUF_LEN == 1024
DEFAULT_BUF_SIZE == 8192

AF_INET == 2

\* Flag words the kernel may give the interface it creates for TUNSETIFF.
KernelFlagSets == {{}, {4, 7}}
\* Sizes of the packets the device hands out (0: a read that returns 0).
DevSizes == {0, 1500}
\* Sizes of the datagrams the peer sends.
UdpSizes == {0, 1500}

NoSlice == [id |-> 0, off |-> 0, len |-> 0]
Min(a, b) == IF a < b THEN a ELSE b
Max(a, b) == IF a > b THEN a ELSE b

VARIABLES
    pcMain,        \* position of main()
    pcUdp,         \* position of the spawned udp receive task
    exitStatus,    \* process exit status, -1 while the process runs
    ipnet,         \* the parsed cidr the interface is configured with
    req,           \* the ifreq passed to every ioctl
    iface,         \* the kernel's state of the interface
    issued,        \* control operations issued so far, in order
    failedStep,    \* the control operation that failed, or "none"
    tunFiles,      \* number of live File objects that own rawfd
    tunCloses,     \* number of close(rawfd) calls made so far
    tunAccess,     \* access mode of the open device descriptor
    sock4,         \* state of the control socket
    udpSock,       \* state of the transport socket
    udpCloses,     \* number of closes of the transport socket
    nTun,          \* device reads that returned Ok so far
    tunLens,       \* tunLens[i]: length of the i-th packet of the device
    rdBuf,         \* bytes left in the BufReader
    tunCur,        \* tun_buf[..n] of the iteration in progress
    udpSent,       \* datagrams the transport accepted, in order
    sendErr,       \* ids whose send_to error was logged
    nUdp,          \* recv_from calls that returned Ok so far
    udpLens,       \* udpLens[i]: length of the i-th datagram of the peer
    udpCur,        \* udp_buf[..n] of the iteration in progress
    wbuf,          \* slices held by the BufWriter
    devIn,         \* writes the device accepted, each a sequence of slices
    wrErr,         \* ids whose tun write error was logged
    wrOk,          \* ids logged as "write n bytes to tun"
    devFailed,     \* the failed writes to the device, each the ids it carried
    lastPeer,      \* peer of the last recv_from that returned Ok
    readErrs,      \* TRUE once a tun read error was logged
    recvErrs,      \* TRUE once a udp read error was logged
    tunValid,      \* FALSE once the device is closed or revoked
    udpValid,      \* FALSE once the transport socket is invalid
    stopRequested  \* an external stop signal was raised

startupVars == <<ipnet, req, iface, issued, failedStep, tunAccess, sock4>>
resVars == <<tunFiles, tunCloses, udpSock, udpCloses>>
dirAVars == <<nTun, tunLens, rdBuf, tunCur, udpSent, sendErr, readErrs>>
dirBVars == <<nUdp, udpLens, udpCur, wbuf, devIn, wrErr, wrOk, devFailed,
              lastPeer, recvErrs>>
envVars == <<tunValid, udpValid, stopRequested>>
vars == <<pcMain, pcUdp, exitStatus, startupVars, resVars, dirAVars,
          dirBVars, envVars>>

\* ---------------------------------------------------------------- startup
\* ifreq::with_if_name(iface): zeroed request carrying the name.
with_if_name(name) ==
    [ifr_name |-> name, ifr_ifru |-> [tag |-> "ifr_flags", v |-> {}]]

NoIface == [exists |-> FALSE, name |-> "", flags |-> {}, addr |-> <<>>,
            netmask |-> <<>>]

\* The parsed "10.0.5.1/24".
cidr == [addr |-> <<10, 0, 5, 1>>, prefix_len |-> 24]

Pow2(n) == 2 ^ n

\* An IPv6 network the same line could name: "fd00::1/64", as 16 bit groups.
cidr6 == [addr |-> <<64768, 0, 0, 0, 0, 0, 0, 1>>, prefix_len |-> 64]

\* The networks the configuration string may parse to.
Cidrs == {cidr, cidr6}

\* IpNet::netmask(): the prefix_len leading bits set, octet by octet (IPv4)
\* or group by group (IPv6).
NetmaskOctet(p, i) == 256 - Pow2(8 - Max(0, Min(8, p - 8 * (i - 1))))
NetmaskGroup(p, i) == 65536 - Pow2(16 - Max(0, Min(16, p - 16 * (i - 1))))
netmask(c) ==
    IF Len(c.addr) = 4
      THEN [i \in 1..4 |-> NetmaskOctet(c.prefix_len, i)]
      ELSE [i \in 1..8 |-> NetmaskGroup(c.prefix_len, i)]

\* The variant of InetAddr that from_std makes of an IpAddr.
InetAddrVariant(ip) == IF Len(ip) = 4 THEN "V4" ELSE "V6"

\* InetAddr::from_std(&(ip, 0).into()): a sockaddr_in with port 0.
from_std(ip) == [sin_family |-> AF_INET, sin_port |-> <<0, 0>>, sin_addr |-> ip]

\* std::mem::transmute(sockaddr_in) to the 16 byte sockaddr of the union.
transmute(sin) ==
    [sa_family |-> sin.sin_family,
     sa_data |-> sin.sin_port \o sin.sin_addr \o <<0, 0, 0, 0, 0, 0, 0, 0>>]

\* The address the kernel takes out of a sockaddr: bytes 2..5 of sa_data.
KernelAddrOf(sa) == SubSeq(sa.sa_data, 3, 6)

\* The kernel's dispatch of a socket ioctl on its numeric operation code.
KernelSockIoctl(code, r, ifc) ==
    CASE code = 35091 ->
           [iface |-> ifc,
            req |-> [r EXCEPT !.ifr_ifru = [tag |-> "ifr_flags", v |-> ifc.flags]]]
      [] code = 35092 ->
           [iface |-> [ifc EXCEPT !.flags = r.ifr_ifru.v], req |-> r]
      [] code = 35094 ->
           [iface |-> [ifc EXCEPT !.addr = KernelAddrOf(r.ifr_ifru.v)], req |-> r]
      [] code = 35100 ->
           [iface |-> [ifc EXCEPT !.netmask = KernelAddrOf(r.ifr_ifru.v)], req |-> r]
      [] OTHER -> [iface |-> ifc, req |-> r]

\* The tun driver's dispatch of an ioctl on the device descriptor.
KernelTunIoctl(code) == IF code = 1074025674 THEN "set_iff" ELSE "einval"

\* The error is not propagated: main goes on with the next statement.
OnErrContinue(next) == next

\* The "?" after a failed call: main returns Err, the process is over.
OnErr(next) == "exited"

\* Dropping main's locals on return: every live File closes rawfd.
DropFiles ==
    /\ tunCloses' = tunCloses + tunFiles
    /\ tunFiles' = 0

\* let tun_file = File::open("/dev/net/tun").await?;
OpenTun ==
    /\ pcMain = "open"
    /\ \/ /\ pcMain' = "tunsetiff"
          /\ tunFiles' = 1
          /\ tunAccess' = "RDONLY"
          /\ UNCHANGED <<exitStatus, tunCloses>>
       \/ /\ pcMain' = OnErr("tunsetiff")
          /\ exitStatus' = 1
          /\ UNCHANGED <<tunFiles, tunAccess, tunCloses>>
    /\ UNCHANGED <<pcUdp, ipnet, req, iface, issued, failedStep, sock4, udpSock,
                   udpCloses, dirAVars, dirBVars, envVars>>

\* A failed ioctl!(..)?: nothing is configured, main returns.
IoctlFails(step, next) ==
    /\ pcMain' = OnErr(next)
    /\ IF pcMain' = "exited"
         THEN exitStatus' = 1 /\ DropFiles
         ELSE UNCHANGED <<exitStatus, tunFiles, tunCloses>>
    /\ failedStep' = step

\* req.ifr_flags = IFF_TUN | IFF_NO_PI | IFF_MULTI_QUEUE; ioctl(TUNSETIFF)?
TunSetIff ==
    /\ pcMain = "tunsetiff"
    /\ issued' = Append(issued, "TUNSETIFF")
    /\ LET r0 == [with_if_name("") EXCEPT
                    !.ifr_ifru = [tag |-> "ifr_flags",
                                  v |-> IFF_TUN \cup IFF_NO_PI \cup IFF_MULTI_QUEUE]]
       IN \/ \E f \in KernelFlagSets :
               /\ KernelTunIoctl(TUNSETIFF) = "set_iff"
               /\ iface' = [exists |-> TRUE, name |-> "tun0", flags |-> f,
                            addr |-> <<>>, netmask |-> <<>>]
               /\ req' = [r0 EXCEPT !.ifr_name = "tun0"]
               /\ pcMain' = "socket"
               /\ UNCHANGED <<exitStatus, failedStep, tunFiles, tunCloses>>
          \/ /\ IoctlFails("TUNSETIFF", "socket")
             /\ req' = r0
             /\ UNCHANGED iface
    /\ UNCHANGED <<pcUdp, ipnet, tunAccess, sock4, udpSock, udpCloses, dirAVars,
                   dirBVars, envVars>>

\* let sock4 = unsafe { socket(AF_INET, SOCK_DGRAM, IPPROTO_IP) };
OpenSock4 ==
    /\ pcMain = "socket"
    /\ sock4' = "open"
    /\ pcMain' = "getflags"
    /\ UNCHANGED <<pcUdp, exitStatus, ipnet, req, iface, issued, failedStep,
                   tunAccess, resVars, dirAVars, dirBVars, envVars>>

\* One ioctl!(sock4, code, &req)? on the request r.
SockIoctl(step, code, r, next) ==
    /\ issued' = Append(issued, step)
    /\ \/ /\ r.ifr_name = iface.name
          /\ LET k == KernelSockIoctl(code, r, iface)
             IN /\ iface' = k.iface
                /\ req' = k.req
          /\ pcMain' = next
          /\ UNCHANGED <<exitStatus, failedStep, tunFiles, tunCloses>>
       \/ /\ IoctlFails(step, next)
          /\ req' = r
          /\ UNCHANGED iface
    /\ UNCHANGED <<pcUdp, ipnet, tunAccess, sock4, udpSock, udpCloses, dirAVars,
                   dirBVars, envVars>>

\* ioctl!(sock4, SIOCGIFFLAGS, &req)?;
GetFlags ==
    /\ pcMain = "getflags"
    /\ SockIoctl("SIOCGIFFLAGS", SIOCGIFFLAGS, req, "setflags")

\* req.ifr_ifru.ifr_flags |= IFF_UP; without IFF_RUNNING.
OrUpOnly(r) ==
    [r EXCEPT !.ifr_ifru = [tag |-> "ifr_flags", v |-> r.ifr_ifru.v \cup IFF_UP]]

\* req.ifr_ifru.ifr_flags |= IFF_UP | IFF_RUNNING;
OrUpRunning(r) ==
    [r EXCEPT !.ifr_ifru = [tag |-> "ifr_flags",
                            v |-> r.ifr_ifru.v \cup IFF_UP \cup IFF_RUNNING]]

\* req.ifr_flags |= IFF_UP | IFF_RUNNING; ioctl!(sock4, SIOCSIFFLAGS, &req)?;
SetFlags ==
    /\ pcMain = "setflags"
    /\ SockIoctl("SIOCSIFFLAGS", SIOCSIFFLAGS, OrUpRunning(req), "setaddr")

\* An InetAddr::V6(_) => {} arm: nothing is done, main goes on.
SkipV6(next) ==
    /\ pcMain' = next
    /\ UNCHANGED <<pcUdp, exitStatus, startupVars, resVars, dirAVars, dirBVars,
                   envVars>>

\* match addr { V4(sockaddr_in) => { req.ifr_addr = transmute(sockaddr_in);
\* ioctl!(sock4, SIOCSIFADDR, &req)?; }, V6(_) => {} }
SetAddr ==
    /\ pcMain = "setaddr"
    /\ IF InetAddrVariant(ipnet.addr) = "V4"
         THEN SockIoctl("SIOCSIFADDR", SIOCSIFADDR,
                        [req EXCEPT !.ifr_ifru =
                           [tag |-> "ifr_addr",
                            v |-> transmute(from_std(ipnet.addr))]],
                        "setmask")
         ELSE SkipV6("setmask")

\* match netmask { V4(sockaddr_in) => { req.ifr_netmask = transmute(..);
\* ioctl!(sock4, SIOCSIFNETMASK, &req)?; }, V6(_) => () }
SetNetmask ==
    /\ pcMain = "setmask"
    /\ IF InetAddrVariant(netmask(ipnet)) = "V4"
         THEN SockIoctl("SIOCSIFNETMASK", SIOCSIFNETMASK,
                        [req EXCEPT !.ifr_ifru =
                           [tag |-> "ifr_netmask",
                            v |-> transmute(from_std(netmask(ipnet)))]],
                        "wrap")
         ELSE SkipV6("wrap")

\* tun_reader and tun_writer: two more Files made from the same raw fd.
WrapRawFd ==
    /\ pcMain = "wrap"
    /\ tunFiles' = tunFiles + 2
    /\ pcMain' = "bind"
    /\ UNCHANGED <<pcUdp, exitStatus, startupVars, tunCloses, udpSock, udpCloses,
                   dirAVars, dirBVars, envVars>>

\* UdpSocket::bind("0.0.0.0:9090").await?; then the receive task is spawned.
BindUdp ==
    /\ pcMain = "bind"
    /\ \/ /\ udpSock' = "bound"
          /\ pcMain' = "select"
          /\ pcUdp' = "recv"
          /\ UNCHANGED <<exitStatus, tunFiles, tunCloses>>
       \/ /\ pcMain' = OnErr("select")
          /\ exitStatus' = 1
          /\ DropFiles
          /\ UNCHANGED <<udpSock, pcUdp>>
    /\ UNCHANGED <<startupVars, udpCloses, dirAVars, dirBVars, envVars>>

\* ------------------------------------------------- device -> transport
Running == pcMain \in {"select", "read_err", "send"}

\* BufReader::read into a buffer of dstLen bytes: serve what is buffered,
\* otherwise fill the internal buffer with one read of the device.
BufReaderRead(rd, pktId, pktLen, dstLen) ==
    IF rd.len > 0
      THEN LET n == Min(rd.len, dstLen)
           IN [out |-> [id |-> rd.id, off |-> rd.off, len |-> n],
               rest |-> IF rd.len > n
                          THEN [id |-> rd.id, off |-> rd.off + n, len |-> rd.len - n]
                          ELSE NoSlice]
      ELSE LET got == Min(pktLen, DEFAULT_BUF_SIZE)
               n == Min(got, dstLen)
           IN [out |-> [id |-> pktId, off |-> 0, len |-> n],
               rest |-> IF got > n
                          THEN [id |-> pktId, off |-> n, len |-> got - n]
                          ELSE NoSlice]

\* r = tun_reader.read(&mut tun_buf) => Ok(n)
TunRead ==
    /\ pcMain = "select"
    /\ tunValid
    /\ IF rdBuf.len > 0
         THEN /\ LET b == BufReaderRead(rdBuf, 0, 0, TUN_BUF_LEN)
                 IN tunCur' = b.out /\ rdBuf' = b.rest
              /\ UNCHANGED <<nTun, tunLens>>
         ELSE /\ nTun < MaxTunPkts
              /\ \E len \in DevSizes :
                   /\ nTun' = nTun + 1
                   /\ tunLens' = Append(tunLens, len)
                   /\ LET b == BufReaderRead(rdBuf, nTun + 1, len, TUN_BUF_LEN)
                      IN tunCur' = b.out /\ rdBuf' = b.rest
    /\ pcMain' = "send"
    /\ UNCHANGED <<pcUdp, exitStatus, startupVars, resVars, udpSent, sendErr,
                   readErrs, dirBVars, envVars>>

\* r = tun_reader.read(&mut tun_buf) => Err(e)
TunReadErr ==
    /\ pcMain = "select"
    /\ pcMain' = "read_err"
    /\ UNCHANGED <<pcUdp, exitStatus, startupVars, resVars, dirAVars, dirBVars,
                   envVars>>

\* println!("tun read error: {}", e); and the loop takes its next turn.
LogTunReadErr ==
    /\ pcMain = "read_err"
    /\ readErrs' = TRUE
    /\ pcMain' = "select"
    /\ UNCHANGED <<pcUdp, exitStatus, startupVars, resVars, nTun, tunLens, rdBuf,
                   tunCur, udpSent, sendErr, dirBVars, envVars>>

remote_addr == "127.0.0.1:9091"

\* send_to(&tun_buf, ..): the whole buffer instead of the n bytes read.
SendPayloadWholeBuf(cur) ==
    [id |-> cur.id, off |-> cur.off, len |-> TUN_BUF_LEN, dst |-> remote_addr]

\* send_to(&tun_buf[..n], &peer): replying to whoever sent last.
SendPayloadToLastPeer(cur) ==
    [id |-> cur.id, off |-> cur.off, len |-> cur.len, dst |-> lastPeer]

\* The datagram handed to send_to for the slice read.
SendPayload(cur) == [id |-> cur.id, off |-> cur.off, len |-> cur.len, dst |-> remote_addr]

\* udp_sender.send_to(&tun_buf[..n], &remote_addr).await: Ok or logged Err.
UdpSend ==
    /\ pcMain = "send"
    /\ \/ /\ udpValid
          /\ udpSent' = Append(udpSent, SendPayload(tunCur))
          /\ UNCHANGED sendErr
       \/ /\ sendErr' = sendErr \cup {tunCur.id}
          /\ UNCHANGED udpSent
    /\ tunCur' = NoSlice
    /\ pcMain' = "select"
    /\ UNCHANGED <<pcUdp, exitStatus, startupVars, resVars, nTun, tunLens, rdBuf,
                   readErrs, dirBVars, envVars>>

\* ------------------------------------------------- transport -> device
\* udp_receiver.recv_from(&mut udp_buf) => Ok((n, peer)): at most the
\* buffer's length of the datagram is returned.
RecvInto(pktId, pktLen, bufLen) == [id |-> pktId, off |-> 0, len |-> Min(pktLen, bufLen)]

NumEmpty(lens) == Cardinality({i \in DOMAIN lens : lens[i] = 0})

UdpRecv(maxPkts, peers) ==
    /\ pcUdp = "recv"
    /\ udpValid
    /\ nUdp < maxPkts
    /\ \E len \in UdpSizes, peer \in peers :
         /\ len = 0 => NumEmpty(udpLens) < MaxEmptyDgrams
         /\ nUdp' = nUdp + 1
         /\ udpLens' = Append(udpLens, len)
         /\ udpCur' = RecvInto(nUdp + 1, len, UDP_BUF_LEN)
         /\ lastPeer' = peer
    /\ pcUdp' = "write"
    /\ UNCHANGED <<pcMain, exitStatus, startupVars, resVars, dirAVars, wbuf, devIn,
                   wrErr, wrOk, devFailed, recvErrs, envVars>>

\* recv_from => Err(e)
UdpRecvErr ==
    /\ pcUdp = "recv"
    /\ pcUdp' = "recv_err"
    /\ UNCHANGED <<pcMain, exitStatus, startupVars, resVars, dirAVars, dirBVars,
                   envVars>>

\* println!("udp read error: {}", e); and the loop takes its next turn.
LogUdpRecvErr ==
    /\ pcUdp = "recv_err"
    /\ recvErrs' = TRUE
    /\ pcUdp' = "recv"
    /\ UNCHANGED <<pcMain, exitStatus, startupVars, resVars, dirAVars, nUdp, udpLens,
                   udpCur, wbuf, devIn, wrErr, wrOk, devFailed, lastPeer, envVars>>

RECURSIVE BufLen(_)
BufLen(buf) == IF buf = <<>> THEN 0 ELSE Head(buf).len + BufLen(Tail(buf))

\* The new bytes put in front of the buffered ones.
BufPrepend(buf, s) == IF s.len = 0 THEN buf ELSE <<s>> \o buf

\* buf.extend_from_slice(s)
BufAppend(buf, s) == IF s.len = 0 THEN buf ELSE Append(buf, s)

\* write(2) on the device descriptor: EBADF unless it is open for writing.
DevWriteOk(access, valid) == access = "RDWR" /\ valid

\* BufWriter::write(s): flush first when s does not fit, write through when
\* s is as large as the buffer, otherwise only copy s into the buffer.
\* dev: the writes the device accepted; failed: the writes it refused;
\* err: write returned Err.
BufWriterWrite(buf, s, devOk) ==
    LET mustFlush == BufLen(buf) + s.len > DEFAULT_BUF_SIZE
        flushed == IF mustFlush /\ buf # <<>> THEN <<buf>> ELSE <<>>
        buf1 == IF mustFlush THEN <<>> ELSE buf
    IN IF mustFlush /\ buf # <<>> /\ ~devOk
         THEN [buf |-> buf, dev |-> <<>>, failed |-> <<buf>>, err |-> TRUE]
         ELSE IF s.len >= DEFAULT_BUF_SIZE
                THEN IF devOk
                       THEN [buf |-> buf1, dev |-> Append(flushed, <<s>>),
                             failed |-> <<>>, err |-> FALSE]
                       ELSE [buf |-> buf1, dev |-> flushed, failed |-> <<<<s>>>>,
                             err |-> TRUE]
                ELSE [buf |-> BufAppend(buf1, s), dev |-> flushed, failed |-> <<>>,
                      err |-> FALSE]

\* The ids of the packets a write to the device carried.
IdsOf(w) == {w[k].id : k \in DOMAIN w}

\* The Err arm leaves the loop.
LoopAfterWriteBreak(err) == IF err THEN "stopped" ELSE "recv"

\* Both arms of the match only print: the loop takes its next turn.
LoopAfterWrite(err) == "recv"

\* match tun_writer.write(&udp_buf[..n]).await { Ok(n) => .., Err(e) => .. }
TunWrite ==
    /\ pcUdp = "write"
    /\ LET w == BufWriterWrite(wbuf, udpCur, DevWriteOk(tunAccess, tunValid))
       IN /\ wbuf' = w.buf
          /\ devIn' = devIn \o w.dev
          /\ devFailed' = devFailed \o [k \in DOMAIN w.failed |-> IdsOf(w.failed[k])]
          /\ IF w.err
               THEN wrErr' = wrErr \cup {udpCur.id} /\ UNCHANGED wrOk
               ELSE wrOk' = wrOk \cup {udpCur.id} /\ UNCHANGED wrErr
          /\ pcUdp' = LoopAfterWrite(w.err)
    /\ udpCur' = NoSlice
    /\ UNCHANGED <<pcMain, exitStatus, startupVars, resVars, dirAVars, nUdp, udpLens,
                   lastPeer, recvErrs, envVars>>

\* ------------------------------------------------------------ environment
\* The device is closed or revoked under the running engine.
InvalidateTun ==
    /\ Running
    /\ tunValid
    /\ tunValid' = FALSE
    /\ UNCHANGED <<pcMain, pcUdp, exitStatus, startupVars, resVars, dirAVars,
                   dirBVars, udpValid, stopRequested>>

\* The transport socket becomes invalid under the running engine.
InvalidateUdp ==
    /\ Running
    /\ udpValid
    /\ udpValid' = FALSE
    /\ UNCHANGED <<pcMain, pcUdp, exitStatus, startupVars, resVars, dirAVars,
                   dirBVars, tunValid, stopRequested>>

\* An external stop request; the select! has no branch that observes it.
StopSignal ==
    /\ Running
    /\ ~stopRequested
    /\ stopRequested' = TRUE
    /\ UNCHANGED <<pcMain, pcUdp, exitStatus, startupVars, resVars, dirAVars,
                   dirBVars, tunValid, udpValid>>

\* ---------------------------------------------------------- specification
\* Addresses datagrams arrive from: the fixed peer and another host.
Peers == {remote_addr, "10.0.5.2:4000"}
BurstPeers == {remote_addr}

\* The state at the start of main(), for the configured network c.
InitFrom(c) ==
    /\ ipnet = c
    /\ pcMain = "open"
    /\ pcUdp = "unspawned"
    /\ exitStatus = -1
    /\ req = with_if_name("")
    /\ iface = NoIface
    /\ issued = <<>>
    /\ failedStep = "none"
    /\ tunFiles = 0
    /\ tunCloses = 0
    /\ tunAccess = "none"
    /\ sock4 = "none"
    /\ udpSock = "none"
    /\ udpCloses = 0
    /\ nTun = 0
    /\ tunLens = <<>>
    /\ rdBuf = NoSlice
    /\ tunCur = NoSlice
    /\ udpSent = <<>>
    /\ sendErr = {}
    /\ nUdp = 0
    /\ udpLens = <<>>
    /\ udpCur = NoSlice
    /\ wbuf = <<>>
    /\ devIn = <<>>
    /\ wrErr = {}
    /\ wrOk = {}
    /\ devFailed = <<>>
    /\ lastPeer = "none"
    /\ readErrs = FALSE
    /\ recvErrs = FALSE
    /\ tunValid = TRUE
    /\ udpValid = TRUE
    /\ stopRequested = FALSE

Init == InitFrom(cidr)

Startup ==
    \/ OpenTun
    \/ TunSetIff
    \/ OpenSock4
    \/ GetFlags
    \/ SetFlags
    \/ SetAddr
    \/ SetNetmask
    \/ WrapRawFd
    \/ BindUdp

MainTask == TunRead \/ TunReadErr \/ LogTunReadErr \/ UdpSend
UdpTask == UdpRecv(MaxUdpPkts, Peers) \/ UdpRecvErr \/ LogUdpRecvErr \/ TunWrite

Next ==
    \/ OpenTun
    \/ TunSetIff
    \/ OpenSock4
    \/ GetFlags
    \/ SetFlags
    \/ SetAddr
    \/ SetNetmask
    \/ WrapRawFd
    \/ BindUdp
    \/ TunRead
    \/ TunReadErr
    \/ LogTunReadErr
    \/ UdpSend
    \/ UdpRecv(MaxUdpPkts, Peers)
    \/ UdpRecvErr
    \/ LogUdpRecvErr
    \/ TunWrite
    \/ InvalidateTun
    \/ InvalidateUdp
    \/ StopSignal

Spec == Init /\ [][Next]_vars

\* A long burst of datagrams with no fault of the resources: long enough
\* for the BufWriter to fill up and write to the device.
NextBurst ==
    \/ OpenTun
    \/ TunSetIff
    \/ OpenSock4
    \/ GetFlags
    \/ SetFlags
    \/ SetAddr
    \/ SetNetmask
    \/ WrapRawFd
    \/ BindUdp
    \/ TunRead
    \/ TunReadErr
    \/ LogTunReadErr
    \/ UdpSend
    \/ UdpRecv(MaxBurstPkts, BurstPeers)
    \/ UdpRecvErr
    \/ LogUdpRecvErr
    \/ TunWrite

BurstSpec == Init /\ [][NextBurst]_vars

\* The same program with the configuration string naming either network.
InitAnyCidr == \E c \in Cidrs : InitFrom(c)
AnyCidrSpec == InitAnyCidr /\ [][Next]_vars

\* The runtime keeps polling both tasks: each takes its next step.
FairSpec == Spec /\ WF_vars(MainTask) /\ WF_vars(UdpTask) /\ WF_vars(Startup)

\* ------------------------------------------------------------------ claims
EngineStopped == pcMain = "exited"
UdpLoop == {"recv", "recv_err", "write"}

\* Packet i of the device has left the main loop's hands.
DoneA(i) == i <= nTun /\ tunCur.id # i /\ rdBuf.id # i
\* Datagram i of the peer has left the receive task's hands.
DoneB(i) == i <= nUdp /\ udpCur.id # i

SentOf(i) == {k \in DOMAIN udpSent : udpSent[k].id = i}
WritesOf(i) == {k \in DOMAIN devIn : \E j \in DOMAIN devIn[k] : devIn[k][j].id = i}

\* C1: every packet a device read returned is sent to the transport as
\* exactly one datagram carrying all of its bytes and nothing else, or it is
\* dropped with a logged error; never in part, never twice.
C1_DeviceToTransportExact ==
    \A i \in 1..nTun :
      /\ Cardinality(SentOf(i)) <= 1
      /\ \A k \in SentOf(i) : udpSent[k].off = 0 /\ udpSent[k].len = tunLens[i]
      /\ DoneA(i) => (SentOf(i) # {}) # (i \in sendErr)

C1_Witness ==
    \E i, j \in 1..nTun :
      /\ tunLens[i] = 1500 /\ SentOf(i) # {} /\ DoneA(i)
      /\ j \in sendErr /\ SentOf(j) = {} /\ DoneA(j)

\* C2: every non-empty datagram received from the transport (of any size up
\* to 1500) reaches the device as one write carrying exactly its payload, or does not
\* reach it at all and an error is logged for it.
C2_TransportToDeviceExact ==
    \A i \in 1..nUdp :
      (DoneB(i) /\ udpLens[i] > 0) =>
        \/ /\ Cardinality(WritesOf(i)) = 1
           /\ \A k \in WritesOf(i) :
                devIn[k] = <<[id |-> i, off |-> 0, len |-> udpLens[i]]>>
        \/ /\ WritesOf(i) = {}
           /\ i \in wrErr

Ordered(seq) ==
    \A a, b \in DOMAIN seq :
      a < b => \/ seq[a].id < seq[b].id
               \/ seq[a].id = seq[b].id /\ seq[a].off < seq[b].off

RECURSIVE Flatten(_)
Flatten(ws) == IF ws = <<>> THEN <<>> ELSE Head(ws) \o Flatten(Tail(ws))

\* C3: within each direction the bytes move on in the order they were read:
\* the datagrams sent are in the order of the device reads, and what the
\* device was given followed by what the BufWriter still holds is in the
\* order of the receives.
C3_OrderPreserved ==
    /\ Ordered(udpSent)
    /\ Ordered(Flatten(devIn) \o wbuf)

C3_Witness ==
    /\ Len(udpSent) >= 2
    /\ Len(wbuf) >= 2
    /\ nUdp > Len(wbuf)

\* C4: no per-packet I/O error stops the engine: once running, the main loop
\* and the receive task stay in their loops, and the step in which a device
\* write fails logs it, drops the datagram and leaves the task waiting for
\* the next datagram while the main loop is still running.
C4_ErrorsDoNotStop ==
    [][ /\ Running => Running' /\ exitStatus' = -1
        /\ pcUdp \in UdpLoop => pcUdp' \in UdpLoop
        /\ wrErr' # wrErr =>
             /\ wrErr' = wrErr \cup {udpCur.id}
             /\ pcUdp' = "recv"
             /\ Running'
             /\ \A k \in DOMAIN wbuf' : wbuf'[k].id # udpCur.id
             /\ devIn' = devIn
      ]_vars

C4_Witness ==
    /\ wrErr # {}
    /\ pcUdp = "recv"
    /\ pcMain = "select"
    /\ readErrs
    /\ recvErrs
    /\ sendErr # {}

\* C5: once the device or the transport socket is permanently invalid, the
\* engine eventually stops, with both resources released and a non-zero
\* exit status.
C5_FatalErrorStops ==
    (~tunValid \/ ~udpValid) ~>
        (EngineStopped /\ exitStatus > 0 /\ tunFiles = 0 /\ udpSock = "closed")

C7_StopSignalStops ==
    stopRequested ~> (EngineStopped /\ exitStatus = 0)

\* C8: on every exit path of a run that opened the device, exactly one close
\* was issued against the device's descriptor.
C8_DeviceClosedOnce ==
    /\ tunCloses <= 1
    /\ (EngineStopped /\ tunAccess # "none") => tunCloses = 1

\* C9: when a startup control operation has failed, it is the last one
\* issued, the process has exited with a non-zero status, the transport
\* socket was never bound and no packet was read or forwarded.
C9_StartupFailureAborts ==
    failedStep # "none" =>
      /\ EngineStopped
      /\ exitStatus > 0
      /\ issued[Len(issued)] = failedStep
      /\ udpSock = "none"
      /\ pcUdp = "unspawned"
      /\ nTun = 0 /\ nUdp = 0
      /\ udpSent = <<>> /\ devIn = <<>> /\ wbuf = <<>>

C9_Witness ==
    /\ failedStep = "SIOCGIFFLAGS"
    /\ issued = <<"TUNSETIFF", "SIOCGIFFLAGS">>
    /\ EngineStopped

\* Bring-up succeeded: all five control operations were issued, none failed.
BroughtUp == Len(issued) = 5 /\ failedStep = "none"

\* What a get-flags query of the interface named in req reports.
QueryFlags == KernelSockIoctl(35091, req, iface).req.ifr_ifru.v

\* C10: after a successful bring-up with 10.0.5.1/24 the interface reports
\* address 10.0.5.1, netmask 255.255.255.0 and flags with UP and RUNNING.
C10_ConfigRoundTrip ==
    BroughtUp =>
      /\ req.ifr_name = iface.name
      /\ iface.addr = <<10, 0, 5, 1>>
      /\ iface.netmask = <<255, 255, 255, 0>>
      /\ IFF_UP \subseteq QueryFlags
      /\ IFF_RUNNING \subseteq QueryFlags

C10_Witness ==
    /\ BroughtUp
    /\ Running

\* C12: bring-up preserves the interface's flags: the get-flags step leaves
\* them as they are, and the set-flags step makes them the flags the
\* interface had, united with UP and RUNNING.
C12_FlagsPreserved ==
    [][ /\ pcMain = "getflags" => iface'.flags = iface.flags
        /\ (pcMain = "setflags" /\ pcMain' = "setaddr") =>
             iface'.flags = iface.flags \cup IFF_UP \cup IFF_RUNNING
      ]_vars

\* Ids of the datagrams the receive task holds, read and not yet handed to
\* the device or dropped; and the same for the main loop.
HeldB == {wbuf[k].id : k \in DOMAIN wbuf} \cup (IF pcUdp = "write" THEN {udpCur.id} ELSE {})
HeldA == (IF pcMain = "send" THEN {tunCur.id} ELSE {}) \cup (IF rdBuf.len > 0 THEN {rdBuf.id} ELSE {})

\* C14: in every state each direction holds at most one packet that was
\* read and is not yet delivered or dropped.
C14_OnePacketInFlight ==
    /\ Cardinality(HeldA) <= 1
    /\ Cardinality(HeldB) <= 1

\* C15: no zero-length datagram is ever sent to the peer, and nothing of a
\* zero-length receive is written to the device.
C15_NoEmptyForward ==
    /\ \A k \in DOMAIN udpSent : udpSent[k].len > 0
    /\ \A k \in DOMAIN devIn : \A j \in DOMAIN devIn[k] : devIn[k][j].len > 0

\* C16: once bring-up is over and while the process lives on (wrapping the
\* descriptor, binding, forwarding), the control socket is not open.
C16_ControlSocketClosed ==
    pcMain \in {"wrap", "bind", "select", "read_err", "send"} => sock4 # "open"

\* C18: the device descriptor, once open, is open for reading and writing.
C18_DeviceOpenedReadWrite ==
    tunAccess \in {"none", "RDWR"}

\* Datagrams processed by the receive task that carried bytes.
NonEmptyDone == {i \in 1..nUdp : DoneB(i) /\ udpLens[i] > 0}

\* Datagrams of UDP_BUF_LEN bytes that overflow the BufWriter.
FlushDue == DEFAULT_BUF_SIZE \div UDP_BUF_LEN + 1

\* C11: neither direction blocks or starves the other: with both resources
\* ready and sound, each task can take its next packet whatever the other
\* task is doing, and the transport->device direction has forwarded packets
\* to the device by the time it has processed more datagrams than its
\* buffer holds.
C11_NeitherDirectionStarves ==
    /\ (pcMain = "select" /\ nTun < MaxTunPkts) => ENABLED TunRead
    /\ (pcUdp = "recv" /\ nUdp < MaxBurstPkts) =>
          ENABLED UdpRecv(MaxBurstPkts, BurstPeers)
    /\ Cardinality(NonEmptyDone) >= FlushDue => devIn # <<>>

C19_FixedPeer ==
    /\ \A k \in DOMAIN udpSent : udpSent[k].dst = "127.0.0.1:9091"
    /\ \A i \in 1..nUdp : DoneB(i) => i \in wrOk \cup wrErr
    /\ \A i \in 1..nUdp : udpLens[i] > 0 /\ DoneB(i) /\ wrErr = {} =>
          i \in IdsOf(wbuf) \cup IdsOf(Flatten(devIn))

C19_Witness ==
    /\ lastPeer = "10.0.5.2:4000"
    /\ nUdp = 1 /\ udpLens[1] > 0 /\ DoneB(1) /\ 1 \in IdsOf(wbuf)
    /\ Len(udpSent) >= 1
    /\ pcMain = "send"
====
